---- MODULE Spec2Model ----
(***************************************************************************)
(* Model of OpenAIFinetuneEngine (llama_index/finetuning/openai/base.py):  *)
(* one engine instance driven by a single sequential caller, together with *)
(* the remote fine-tuning service it talks to (files, jobs).               *)
(*                                                                         *)
(* Python values are modelled as follows.                                  *)
(*   - Optional[X] is a set: {} is None, {x} is a present value.           *)
(*   - a job snapshot is a record [id, status, fine_tuned_model]; the      *)
(*     null fine_tuned_model is the string NoModel.                        *)
(*   - a path is the sequence of its components.                           *)
(*   - **kwargs is a set of <<key, value>> pairs with distinct keys.       *)
(* call is the operation the caller invoked last, with its arguments;      *)
(* trace is the history of the external calls that operation made, stdout  *)
(* is what it printed and result is how it ended (NoResult while it runs). *)
(* start_job_id keeps the argument __init__ was given.                     *)
(*                                                                         *)
(* The module also models AzureOpenAI (llama_index/llms/azure_openai.py):  *)
(* openai_cfg is the process-wide configuration of the openai package,     *)
(* azure the fields of one AzureOpenAI object, az_args the arguments its    *)
(* __init__ was given, az_trace the steps __init__ went through, az_result  *)
(* how the last operation on it ended and az_reads the number of reads of   *)
(* _model_kwargs so far.  The two classes do not interact; each has its own *)
(* specification (Spec, AzureSpec) that leaves the other's state alone.     *)
(***************************************************************************)
EXTENDS Integers, Sequences, FiniteSets, TLC

VARIABLES pc, base_model, data_path, verbose, start_job, start_job_id,
          output, jobs, files, call, trace, stdout, result,
          openai_cfg, azure, az_pc, az_args, az_trace, az_result, az_reads

finetune_vars == <<pc, base_model, data_path, verbose, start_job, start_job_id,
                   output, jobs, files, call, trace, stdout, result>>

azure_vars == <<openai_cfg, azure, az_pc, az_args, az_trace, az_result, az_reads>>

vars == <<finetune_vars, azure_vars>>

engine == <<base_model, data_path, verbose, start_job, start_job_id>>
remote == <<jobs, files>>

----------------------------------------------------------------------------
(* Bounds of the model *)

\* failed create attempts the service may answer within one finetune() call
MaxRetries == 2
\* jobs the service accepts beyond the one that exists initially
MaxJobs == 1
\* files the service accepts
MaxFiles == 2
\* reads of _model_kwargs on one AzureOpenAI object
MaxReads == 2

----------------------------------------------------------------------------
(* Values *)

SleepInterval == 60

KnownModels == {"gpt-3.5-turbo"}
BaseModels == KnownModels \cup {"no-such-model"}

GoodPath == <<"data", "train.jsonl">>
BadPath == <<"bad.jsonl">>
DataPaths == {GoodPath, BadPath}
\* dataset files on disk that do not satisfy the example schema
Malformed == {BadPath}

TerminalStatuses == {"succeeded", "failed", "cancelled"}
Statuses == {"running"} \cup TerminalStatuses
NoModel == "null"
FtModel == "ft:abc123"
ModelIds == {NoModel, FtModel}

\* the ids of the jobs that exist on the service before the engine is
\* constructed, and ids the service never knows; the service numbers the jobs
\* it creates later 1, 2, ...
InitialJobs == {0}
UnknownJobs == {-1}
\* the start_job_id argument of __init__
StartJobIds == {{}} \cup {{id} : id \in InitialJobs \cup UnknownJobs}

ModelKwargs == { {}, {<<"temperature", "0.3">>}, {<<"model", "gpt-4">>} }

Snapshot(id, j) ==
  [id |-> id, status |-> j.status, fine_tuned_model |-> j.fine_tuned_model]

NoError == [type |-> "", template |-> "", job_id |-> -1, status |-> ""]
Error(type, template) == [NoError EXCEPT !.type = type, !.template = template]

Returned(job, llm) ==
  [outcome |-> "returned", error |-> NoError, job |-> job, llm |-> llm]
Raised(err) ==
  [outcome |-> "raised", error |-> err, job |-> {}, llm |-> {}]
NoResult ==
  [outcome |-> "", error |-> NoError, job |-> {}, llm |-> {}]

Call(op, model_kwargs) == [op |-> op, model_kwargs |-> model_kwargs]

TheJob(opt) == CHOOSE j \in opt : TRUE

\* os.path.basename on a path without a trailing separator
basename(path) == path[Len(path)]

----------------------------------------------------------------------------
(* The remote service *)

\* openai.FineTuningJob.retrieve(job_id) when the request reaches the service
retrieve(job_id) == Snapshot(job_id, jobs[job_id])

FinetuneInit ==
  /\ pc = "new"
  /\ base_model = ""
  /\ data_path = <<>>
  /\ verbose = FALSE
  /\ start_job = {}
  /\ start_job_id = {}
  /\ output = {}
  /\ jobs \in [InitialJobs -> [status : Statuses, fine_tuned_model : ModelIds]]
  /\ files = <<>>
  /\ call = Call("", {})
  /\ trace = <<>>
  /\ stdout = <<>>
  /\ result = NoResult

\* The service moves a running job to a terminal status.
JobEnds ==
  /\ \E j \in DOMAIN jobs, s \in TerminalStatuses :
       /\ jobs[j].status \notin TerminalStatuses
       /\ jobs' = [jobs EXCEPT ![j].status = s]
  /\ UNCHANGED <<pc, engine, output, files, call, trace, stdout, result>>

\* The service fills in the fine_tuned_model of a job.
ModelAppears ==
  /\ \E j \in DOMAIN jobs :
       /\ jobs[j].fine_tuned_model = NoModel
       /\ jobs' = [jobs EXCEPT ![j].fine_tuned_model = FtModel]
  /\ UNCHANGED <<pc, engine, output, files, call, trace, stdout, result>>

\* The service finishes processing an uploaded file.
FileBecomesReady ==
  /\ \E f \in DOMAIN files :
       /\ ~files[f].ready
       /\ files' = [files EXCEPT ![f].ready = TRUE]
  /\ UNCHANGED <<pc, engine, output, jobs, call, trace, stdout, result>>

----------------------------------------------------------------------------
(* OpenAIFinetuneEngine.__init__ *)

RetrieveCall(job_id, ret) ==
  [call |-> "FineTuningJob.retrieve", id |-> job_id, ret |-> ret]

\* InitStartJob with the job left to be fetched later
InitStartJobLazy(job_id) == {}

\* the value __init__ leaves in self._start_job when no call of it raises
InitStartJob(job_id) ==
  IF job_id # {} THEN {retrieve(TheJob(job_id))} ELSE {}

\* the remote calls __init__ makes; ret is what retrieve returned, if it did
InitTrace(job_id, ret) ==
  IF job_id # {} THEN <<RetrieveCall(TheJob(job_id), ret)>> ELSE << >>

Construct ==
  /\ pc = "new"
  /\ \E bm \in BaseModels, dp \in DataPaths, vb \in BOOLEAN,
        job_id \in StartJobIds, ok \in BOOLEAN :
       /\ call' = Call("__init__", {})
       /\ IF job_id # {} /\ ~(ok /\ TheJob(job_id) \in DOMAIN jobs)
            THEN \* retrieve raises: no engine comes into existence
                 /\ pc' = "dead"
                 /\ trace' = InitTrace(job_id, {})
                 /\ result' = Raised(Error("APIError", "retrieve"))
                 /\ UNCHANGED engine
            ELSE /\ pc' = "idle"
                 /\ base_model' = bm
                 /\ data_path' = dp
                 /\ verbose' = vb
                 /\ start_job_id' = job_id
                 /\ start_job' = InitStartJob(job_id)
                 /\ trace' = InitTrace(job_id, start_job')
                 /\ result' = Returned({}, {})
  /\ UNCHANGED <<output, remote, stdout>>

----------------------------------------------------------------------------
(* OpenAIFinetuneEngine.finetune *)

\* validate_json(path) returns normally (TRUE) or raises (FALSE)
validate_json(path) == path \notin Malformed

ValidateCall == [call |-> "validate_json", path |-> data_path]

UploadCall(raised, ret) ==
  [call |-> "File.create", purpose |-> "fine-tune",
   user_provided_filename |-> basename(data_path),
   raised |-> raised, ret |-> ret]

\* finetune() up to the validator raising: the error leaves finetune()
ValidationFails ==
  /\ pc = "idle"
  /\ ~validate_json(data_path)
  /\ call' = Call("finetune", {})
  /\ trace' = <<ValidateCall>>
  /\ stdout' = <<>>
  /\ result' = Raised(Error("DatasetValidationError", "malformed"))
  /\ UNCHANGED <<pc, engine, output, remote>>

\* finetune() from the upload to the print after it
UploadFile ==
  /\ call' = Call("finetune", {})
  /\ \/ \* openai.File.create raises: the error leaves finetune()
        /\ trace' = <<ValidateCall, UploadCall("APIError", {})>>
        /\ stdout' = <<>>
        /\ result' = Raised(Error("APIError", "upload"))
        /\ UNCHANGED <<pc, engine, output, remote>>
     \/ \* the file is stored; it may or may not be usable at once
        /\ Len(files) < MaxFiles
        /\ \E ready \in BOOLEAN :
             files' = Append(files, [purpose |-> "fine-tune",
                                     filename |-> basename(data_path),
                                     ready |-> ready])
        /\ output' = {[id |-> Len(files) + 1]}
        /\ trace' = <<ValidateCall, UploadCall("", output')>>
        /\ stdout' = IF verbose THEN <<[text |-> "File uploaded...", id |-> -1]>>
                                ELSE <<>>
        /\ result' = NoResult
        /\ pc' = "create"
        /\ UNCHANGED <<engine, jobs>>

\* Upload with the validator's verdict ignored
UploadUnvalidated ==
  /\ pc = "idle"
  /\ UploadFile

\* finetune() from its first line, the validator returning normally
Upload ==
  /\ pc = "idle"
  /\ validate_json(data_path)
  /\ UploadFile

\* the number of waits so far in the running finetune()
NumSleeps(tr) == Cardinality({i \in DOMAIN tr : tr[i].call = "time.sleep"})

\* CreateRequest naming a fixed model instead of the engine's base model
CreateRequestDefaultModel(out, model) ==
  [training_file |-> TheJob(out).id, model |-> "gpt-3.5-turbo"]

\* the arguments of openai.FineTuningJob.create
CreateRequest(out, model) == [training_file |-> TheJob(out).id, model |-> model]

CreateCall(req, raised, cause, ret) ==
  [call |-> "FineTuningJob.create", training_file |-> req.training_file,
   model |-> req.model, raised |-> raised, cause |-> cause, ret |-> ret]

\* the exception classes the except clause of the launch loop handles
Caught(exc) == exc = "InvalidRequestError"

\* CreateRaises with _start_job reset when the error leaves finetune()
CreateRaisesResetsJob(req, exc, cause) ==
  /\ trace' = Append(trace, CreateCall(req, exc, cause, {}))
  /\ IF Caught(exc)
       THEN /\ stdout' = Append(stdout, [text |-> "Waiting for file to be ready...",
                                         id |-> -1])
            /\ pc' = "sleep"
            /\ UNCHANGED <<result, output, start_job>>
       ELSE /\ pc' = "idle"
            /\ result' = Raised(Error(exc, cause))
            /\ output' = {}
            /\ start_job' = {}
            /\ UNCHANGED stdout
  /\ UNCHANGED <<base_model, data_path, verbose, start_job_id, remote, call>>

\* what the except clause does with a caught exception; any other one
\* leaves finetune()
CreateRaises(req, exc, cause) ==
  /\ trace' = Append(trace, CreateCall(req, exc, cause, {}))
  /\ IF Caught(exc)
       THEN /\ stdout' = Append(stdout, [text |-> "Waiting for file to be ready...",
                                         id |-> -1])
            /\ pc' = "sleep"
            /\ UNCHANGED <<result, output>>
       ELSE /\ pc' = "idle"
            /\ result' = Raised(Error(exc, cause))
            /\ output' = {}
            /\ UNCHANGED stdout
  /\ UNCHANGED <<engine, remote, call>>

\* StoredJob storing the job as it would be after waiting for its completion
StoredJobAwaited(job_output) ==
  {[job_output EXCEPT !.status = "succeeded", !.fine_tuned_model = FtModel]}

\* StoredJob keeping a job that is already stored
StoredJobKeepsFirst(job_output) ==
  IF start_job = {} THEN {job_output} ELSE start_job

\* the value the launch loop leaves in self._start_job on success
StoredJob(job_output) == {job_output}

\* one iteration of the launch loop, up to the end of finetune() on success
Create ==
  /\ pc = "create"
  /\ LET req == CreateRequest(output, base_model)
         f == req.training_file
     IN
     \/ \* the request does not get through
        CreateRaises(req, "APIError", "transport")
     \/ \* the service rejects the request: the file is still being processed
        /\ ~files[f].ready
        /\ NumSleeps(trace) < MaxRetries
        /\ CreateRaises(req, "InvalidRequestError", "file_not_ready")
     \/ \* the service rejects the request: it has no such base model
        /\ req.model \notin KnownModels
        /\ NumSleeps(trace) < MaxRetries
        /\ CreateRaises(req, "InvalidRequestError", "unknown_model")
     \/ \* the service accepts the request and creates the job
        /\ files[f].ready
        /\ req.model \in KnownModels
        /\ Cardinality(DOMAIN jobs) < Cardinality(InitialJobs) + MaxJobs
        /\ LET id == Cardinality(DOMAIN jobs)
               j == [status |-> "running", fine_tuned_model |-> NoModel]
               job_output == Snapshot(id, j)
           IN /\ jobs' = jobs @@ (id :> j)
              /\ start_job' = StoredJob(job_output)
              /\ trace' = Append(trace, CreateCall(req, "", "", {job_output}))
              /\ stdout' = IF verbose
                             THEN Append(stdout, [text |-> "Training job launched",
                                                  id |-> TheJob(output).id])
                             ELSE stdout
        /\ pc' = "idle"
        /\ result' = Returned({}, {})
        /\ output' = {}
        /\ UNCHANGED <<base_model, data_path, verbose, start_job_id, files, call>>

\* Sleep with a wait that grows with the number of attempts
SleepBackoff ==
  /\ pc = "sleep"
  /\ trace' = Append(trace, [call |-> "time.sleep",
                             secs |-> SleepInterval * (NumSleeps(trace) + 1)])
  /\ pc' = "create"
  /\ UNCHANGED <<engine, output, remote, call, stdout, result>>

\* time.sleep(60) in the except clause, then the loop goes round
Sleep ==
  /\ pc = "sleep"
  /\ trace' = Append(trace, [call |-> "time.sleep", secs |-> SleepInterval])
  /\ pc' = "create"
  /\ UNCHANGED <<engine, output, remote, call, stdout, result>>

----------------------------------------------------------------------------
(* OpenAIFinetuneEngine.get_current_job, get_finetuned_model *)

\* get_current_job without the check of _start_job: None["id"] raises
get_current_job_unguarded(sj, ok) ==
  IF sj = {}
    THEN [result |-> Raised(Error("TypeError", "'NoneType' is not subscriptable")),
          trace |-> <<>>]
    ELSE LET job_id == TheJob(sj).id
         IN IF ok /\ job_id \in DOMAIN jobs
              THEN LET current_job == retrieve(job_id)
                   IN [result |-> Returned({current_job}, {}),
                       trace |-> <<RetrieveCall(job_id, {current_job})>>]
              ELSE [result |-> Raised(Error("APIError", "retrieve")),
                    trace |-> <<RetrieveCall(job_id, {})>>]

\* get_current_job returning the stored snapshot instead of the fetched one
get_current_job_stale(sj, ok) ==
  IF sj = {}
    THEN [result |-> Raised(Error("ValueError", "Must call finetune() first")),
          trace |-> <<>>]
    ELSE LET job_id == TheJob(sj).id
         IN IF ok /\ job_id \in DOMAIN jobs
              THEN [result |-> Returned(sj, {}),
                    trace |-> <<RetrieveCall(job_id, {retrieve(job_id)})>>]
              ELSE [result |-> Raised(Error("APIError", "retrieve")),
                    trace |-> <<RetrieveCall(job_id, {})>>]

\* get_current_job() on an engine whose _start_job is sj; ok tells whether
\* the retrieve request gets through.  The value is how the call ends and
\* the external calls it made.
get_current_job(sj, ok) ==
  IF sj = {}
    THEN [result |-> Raised(Error("ValueError", "Must call finetune() first")),
          trace |-> <<>>]
    ELSE LET job_id == TheJob(sj).id
         IN IF ok /\ job_id \in DOMAIN jobs
              THEN LET current_job == retrieve(job_id)
                   IN [result |-> Returned({current_job}, {}),
                       trace |-> <<RetrieveCall(job_id, {current_job})>>]
              ELSE [result |-> Raised(Error("APIError", "retrieve")),
                    trace |-> <<RetrieveCall(job_id, {})>>]

\* the model handle factory: a client bound to model, configured by kwargs
OpenAI(model, kwargs) == [model |-> model, config |-> kwargs]

\* model_id_is_none with the check left out
model_id_unchecked(current_job) == FALSE

\* status_not_succeeded recognising only the status "failed"
status_is_failed(current_job) == current_job.status = "failed"

\* the two conditions get_finetuned_model() raises on
model_id_is_none(current_job) == current_job.fine_tuned_model = NoModel

status_not_succeeded(current_job) == current_job.status # "succeeded"

\* construct_llm binding the handle to the engine's base model
construct_llm_base_model(model_id, model_kwargs) ==
  IF \E kv \in model_kwargs : kv[1] = "model"
    THEN [result |-> Raised(Error("TypeError", "multiple values for 'model'")),
          trace |-> <<>>]
    ELSE [result |-> Returned({}, {OpenAI(base_model, model_kwargs)}),
          trace |-> <<[call |-> "OpenAI", model |-> base_model,
                       kwargs |-> model_kwargs]>>]

\* llm = OpenAI(model=model_id, **model_kwargs): Python refuses the call when
\* model_kwargs gives "model" a second value
construct_llm(model_id, model_kwargs) ==
  IF \E kv \in model_kwargs : kv[1] = "model"
    THEN [result |-> Raised(Error("TypeError", "multiple values for 'model'")),
          trace |-> <<>>]
    ELSE [result |-> Returned({}, {OpenAI(model_id, model_kwargs)}),
          trace |-> <<[call |-> "OpenAI", model |-> model_id,
                       kwargs |-> model_kwargs]>>]

\* get_finetuned_model() after get_current_job() has returned current_job
model_of_job(current_job, model_kwargs) ==
  LET job_id == current_job.id
      status == current_job.status
      model_id == current_job.fine_tuned_model
  IN IF model_id_is_none(current_job)
       THEN [result |-> Raised([type |-> "ValueError", template |-> "no_model_id",
                                job_id |-> job_id, status |-> ""]),
             trace |-> <<>>]
     ELSE IF status_not_succeeded(current_job)
       THEN [result |-> Raised([type |-> "ValueError", template |-> "has_status",
                                job_id |-> job_id, status |-> status]),
             trace |-> <<>>]
     ELSE construct_llm(model_id, model_kwargs)

get_finetuned_model(sj, ok, model_kwargs) ==
  LET got == get_current_job(sj, ok)
  IN IF got.result.outcome = "raised"
       THEN got
       ELSE LET made == model_of_job(TheJob(got.result.job), model_kwargs)
            IN [result |-> made.result, trace |-> got.trace \o made.trace]

\* GetCurrentJob storing the fetched snapshot in _start_job
GetCurrentJobRefreshes ==
  /\ pc = "idle"
  /\ \E ok \in BOOLEAN :
       LET r == get_current_job(start_job, ok)
       IN /\ result' = r.result
          /\ trace' = r.trace
          /\ start_job' = IF r.result.outcome = "returned"
                            THEN r.result.job
                            ELSE start_job
  /\ call' = Call("get_current_job", {})
  /\ stdout' = <<>>
  /\ UNCHANGED <<pc, base_model, data_path, verbose, start_job_id, output, remote>>

GetCurrentJob ==
  /\ pc = "idle"
  /\ \E ok \in BOOLEAN :
       LET r == get_current_job(start_job, ok)
       IN /\ result' = r.result
          /\ trace' = r.trace
  /\ call' = Call("get_current_job", {})
  /\ stdout' = <<>>
  /\ UNCHANGED <<pc, engine, output, remote>>

GetFinetunedModel ==
  /\ pc = "idle"
  /\ \E ok \in BOOLEAN, model_kwargs \in ModelKwargs :
       LET r == get_finetuned_model(start_job, ok, model_kwargs)
       IN /\ result' = r.result
          /\ trace' = r.trace
          /\ call' = Call("get_finetuned_model", model_kwargs)
  /\ stdout' = <<>>
  /\ UNCHANGED <<pc, engine, output, remote>>

----------------------------------------------------------------------------
(* AzureOpenAI *)

DefaultApiBase == "https://api.openai.com/v1"
AzureApiBase == "https://YOUR_RESOURCE_NAME.openai.azure.com/"
AzureApiTypes == {"azure", "azure_ad", "azuread"}

\* the values openai.api_base, api_type, api_version and api_key may hold
\* when an AzureOpenAI is constructed, and whether the package can be imported
OpenAIConfigs ==
  [api_base : {DefaultApiBase, AzureApiBase},
   api_type : {"open_ai"} \cup AzureApiTypes,
   api_version : {{}, {"2023-05-15"}},
   api_key : {{}, {"sk-azure"}},
   importable : BOOLEAN]

\* the arguments of AzureOpenAI.__init__
AzureArgs ==
  [model : {"gpt-35-turbo"},
   engine : {{}, {"my-deployment"}},
   additional_kwargs : { {}, {<<"top_p", "0.9">>}, {<<"engine", "other">>} }]

NoAzure == [model |-> "", engine |-> "", temperature |-> "", max_tokens |-> "",
            additional_kwargs |-> {}]
NoArgs == [model |-> "", engine |-> {}, additional_kwargs |-> {}]

AzReturned(kwargs) == [outcome |-> "returned", error |-> NoError, kwargs |-> kwargs]
AzRaised(err) == [outcome |-> "raised", error |-> err, kwargs |-> {}]
AzNoResult == [outcome |-> "", error |-> NoError, kwargs |-> {}]

\* dict.pop(key) and dict[key] = value on a dict held as a set of pairs
Keys(d) == {kv[1] : kv \in d}
Pop(d, key) == {kv \in d : kv[1] # key}
SetItem(d, key, value) == Pop(d, key) \cup {<<key, value>>}
\* {**d, **e}
Merge(d, e) == {kv \in d : kv[1] \notin Keys(e)} \cup e

\* validate_env(): the exception it raises, NoError when it returns
validate_env(cfg) ==
  IF ~cfg.importable
    THEN Error("ImportError", "You must install the openai package")
  ELSE IF cfg.api_base = DefaultApiBase
    THEN Error("ValueError", "OPENAI_API_BASE")
  ELSE IF cfg.api_type \notin AzureApiTypes
    THEN Error("ValueError", "OPENAI_API_TYPE")
  ELSE IF cfg.api_version = {}
    THEN Error("ValueError", "OPENAI_API_VERSION")
  ELSE NoError

\* the fields OpenAI.__init__ leaves in the object
OpenAIInit(args) ==
  [model |-> args.model, engine |-> TheJob(args.engine), temperature |-> "0.1",
   max_tokens |-> "None", additional_kwargs |-> args.additional_kwargs]

\* azure_init with the environment validated before the engine is looked at
azure_init_validates_first(args, cfg) ==
  IF validate_env(cfg) # NoError
    THEN [result |-> AzRaised(validate_env(cfg)), trace |-> <<"validate_env">>,
          object |-> NoAzure]
  ELSE IF args.engine = {}
    THEN [result |-> AzRaised(Error("ValueError", "engine")),
          trace |-> <<"validate_env">>, object |-> NoAzure]
  ELSE [result |-> AzReturned({}), trace |-> <<"validate_env", "OpenAI.__init__">>,
        object |-> OpenAIInit(args)]

\* AzureOpenAI.__init__: how it ends, the steps it went through and the
\* object it leaves
azure_init(args, cfg) ==
  IF args.engine = {}
    THEN [result |-> AzRaised(Error("ValueError", "engine")), trace |-> <<>>,
          object |-> NoAzure]
  ELSE IF validate_env(cfg) # NoError
    THEN [result |-> AzRaised(validate_env(cfg)), trace |-> <<"validate_env">>,
          object |-> NoAzure]
  ELSE [result |-> AzReturned({}), trace |-> <<"validate_env", "OpenAI.__init__">>,
        object |-> OpenAIInit(args)]

\* OpenAI._model_kwargs: a new dict on every read
OpenAIModelKwargs(obj) ==
  Merge({<<"model", obj.model>>, <<"temperature", obj.temperature>>,
         <<"max_tokens", obj.max_tokens>>},
        obj.additional_kwargs)

\* AzureModelKwargs with "model" left in
AzureModelKwargsKeepsModel(obj) ==
  SetItem(OpenAIModelKwargs(obj), "engine", obj.engine)

\* AzureOpenAI._model_kwargs when pop finds its key
AzureModelKwargs(obj) ==
  SetItem(Pop(OpenAIModelKwargs(obj), "model"), "engine", obj.engine)

FinetuneIdle ==
  /\ pc = "new"
  /\ base_model = ""
  /\ data_path = <<>>
  /\ verbose = FALSE
  /\ start_job = {}
  /\ start_job_id = {}
  /\ output = {}
  /\ jobs = [j \in InitialJobs |->
               [status |-> "running", fine_tuned_model |-> NoModel]]
  /\ files = <<>>
  /\ call = Call("", {})
  /\ trace = <<>>
  /\ stdout = <<>>
  /\ result = NoResult

AzureIdle ==
  /\ azure = NoAzure
  /\ az_pc = "new"
  /\ az_args = NoArgs
  /\ az_trace = <<>>
  /\ az_result = AzNoResult
  /\ az_reads = 0

AzureInit ==
  /\ FinetuneIdle
  /\ AzureIdle
  /\ openai_cfg \in OpenAIConfigs

AzureConstruct ==
  /\ az_pc = "new"
  /\ \E args \in AzureArgs :
       LET r == azure_init(args, openai_cfg)
       IN /\ az_args' = args
          /\ az_result' = r.result
          /\ az_trace' = r.trace
          /\ azure' = r.object
          /\ az_pc' = IF r.result.outcome = "returned" THEN "constructed"
                                                       ELSE "failed"
  /\ UNCHANGED <<openai_cfg, az_reads, finetune_vars>>

\* a read of the property _model_kwargs
ReadModelKwargs ==
  /\ az_pc = "constructed"
  /\ az_reads < MaxReads
  /\ az_reads' = az_reads + 1
  /\ az_result' = IF "model" \in Keys(OpenAIModelKwargs(azure))
                    THEN AzReturned(AzureModelKwargs(azure))
                    ELSE AzRaised(Error("KeyError", "model"))
  /\ UNCHANGED <<openai_cfg, azure, az_pc, az_args, az_trace, finetune_vars>>

AzureNext ==
  \/ AzureConstruct
  \/ ReadModelKwargs

AzureSpec == AzureInit /\ [][AzureNext]_vars

----------------------------------------------------------------------------
(* OpenAIFinetuneEngine and the remote service *)

Init ==
  /\ FinetuneInit
  /\ AzureIdle
  /\ openai_cfg = [api_base |-> DefaultApiBase, api_type |-> "open_ai",
                   api_version |-> {}, api_key |-> {}, importable |-> TRUE]

Next ==
  \/ Construct /\ UNCHANGED azure_vars
  \/ ValidationFails /\ UNCHANGED azure_vars
  \/ Upload /\ UNCHANGED azure_vars
  \/ Create /\ UNCHANGED azure_vars
  \/ Sleep /\ UNCHANGED azure_vars
  \/ GetCurrentJob /\ UNCHANGED azure_vars
  \/ GetFinetunedModel /\ UNCHANGED azure_vars
  \/ JobEnds /\ UNCHANGED azure_vars
  \/ ModelAppears /\ UNCHANGED azure_vars
  \/ FileBecomesReady /\ UNCHANGED azure_vars

Spec == Init /\ [][Next]_vars

----------------------------------------------------------------------------
(* Properties *)

Creates(tr) == {i \in DOMAIN tr : tr[i].call = "FineTuningJob.create"}
FailedCreates(tr) == {i \in Creates(tr) : tr[i].raised # ""}

FinetuneReturned ==
  call.op = "finetune" /\ pc = "idle" /\ result.outcome = "returned"
FinetuneRaised ==
  call.op = "finetune" /\ pc = "idle" /\ result.outcome = "raised"

\* C1: a create call that fails for any reason other than the file not being
\* ready is the last external call of finetune(): no sleep and no further
\* create follow it, and finetune() has ended raising that failure.
C1_OtherFailurePropagates ==
  \A i \in FailedCreates(trace) :
    trace[i].cause # "file_not_ready" =>
      /\ i = Len(trace)
      /\ pc = "idle"
      /\ result = Raised(Error(trace[i].raised, trace[i].cause))

\* C2: when finetune() has returned after k create calls that raised the
\* file-not-ready condition, it made exactly k+1 create calls, each failed one
\* followed by exactly one sleep of SleepInterval seconds, and _start_job is
\* what the last, (k+1)-th, create call returned.
C2_TransientRetries ==
  (FinetuneReturned /\ \A i \in FailedCreates(trace) :
                         trace[i].cause = "file_not_ready") =>
    LET k == Cardinality(FailedCreates(trace))
    IN /\ Cardinality(Creates(trace)) = k + 1
       /\ NumSleeps(trace) = k
       /\ Len(trace) = 2 * k + 3
       /\ \A n \in 1..k :
            /\ trace[2 * n + 1].call = "FineTuningJob.create"
            /\ trace[2 * n + 1].raised = "InvalidRequestError"
            /\ trace[2 * n + 2] = [call |-> "time.sleep", secs |-> SleepInterval]
       /\ trace[2 * k + 3].call = "FineTuningJob.create"
       /\ trace[2 * k + 3].raised = ""
       /\ trace[2 * k + 3].ret # {}
       /\ start_job = trace[2 * k + 3].ret

\* finetune() has returned after MaxRetries waits
C2_Witness ==
  FinetuneReturned /\ NumSleeps(trace) = MaxRetries /\ MaxRetries >= 2

\* C3: on an engine whose dataset file is malformed, nothing is ever uploaded
\* and no job is ever created, finetune() is never past the validator, every
\* finetune() ends raising the validator's error after the validator call
\* alone, and no step after construction changes _start_job.
C3_MalformedNoNetwork ==
  [][ data_path' \in Malformed =>
        /\ files' = <<>>
        /\ DOMAIN jobs' = InitialJobs
        /\ pc' = "idle"
        /\ call'.op = "finetune" =>
             /\ result' = Raised(Error("DatasetValidationError", "malformed"))
             /\ trace' = <<[call |-> "validate_json", path |-> data_path']>>
        /\ pc = "idle" => start_job' = start_job ]_vars

\* a resumed engine with a malformed dataset on which finetune() has failed
C3_Witness ==
  /\ data_path \in Malformed
  /\ FinetuneRaised
  /\ start_job # {}

\* C4: _start_job changes only in construction and in the step that ends
\* finetune() successfully, which stores what the create call returned; in
\* particular it is unchanged by every step of a finetune() that ends with an
\* error and by the waits between attempts.
C4_JobSetOnlyOnSuccess ==
  [][ start_job' # start_job =>
        \/ pc = "new"
        \/ /\ pc = "create"
           /\ pc' = "idle"
           /\ call'.op = "finetune"
           /\ result'.outcome = "returned"
           /\ start_job' = trace'[Len(trace')].ret ]_vars

\* a resumed engine on which finetune() waited, tried again and then failed
C4_Witness ==
  /\ FinetuneRaised
  /\ result.error = Error("APIError", "transport")
  /\ NumSleeps(trace) >= 1
  /\ start_job # {}
  /\ TheJob(start_job).id \in InitialJobs

Observers == {"get_current_job", "get_finetuned_model"}

MustFinetuneFirst == Raised(Error("ValueError", "Must call finetune() first"))

\* the snapshot the last operation fetched first, if it fetched one
Fetched ==
  IF trace # <<>> /\ trace[1].call = "FineTuningJob.retrieve"
    THEN trace[1].ret
    ELSE {}

\* C5: on an engine constructed without start_job_id, while the service has
\* created no job (no finetune() has succeeded), get_current_job() and
\* get_finetuned_model() end raising the "must finetune first" error, having
\* made no external call and built no model handle.
C5_MustFinetuneFirst ==
  (call.op \in Observers /\ start_job_id = {} /\ DOMAIN jobs = InitialJobs) =>
    /\ result = MustFinetuneFirst
    /\ trace = <<>>
    /\ result.llm = {}

\* get_finetuned_model() on such an engine, after a finetune() that uploaded
\* its file and then failed
C5_Witness ==
  /\ call.op = "get_finetuned_model"
  /\ start_job_id = {}
  /\ DOMAIN jobs = InitialJobs
  /\ files # <<>>
  /\ result = MustFinetuneFirst

\* C6: when the snapshot get_finetuned_model() fetched has no
\* fine_tuned_model, the call ends raising the model-not-ready error for that
\* job, whatever the status, and makes no further call (no handle is built).
C6_NullModelNotReady ==
  (/\ call.op = "get_finetuned_model"
   /\ Fetched # {}
   /\ TheJob(Fetched).fine_tuned_model = NoModel) =>
    /\ result = Raised([type |-> "ValueError", template |-> "no_model_id",
                        job_id |-> TheJob(Fetched).id, status |-> ""])
    /\ Len(trace) = 1

\* the fetched snapshot is "succeeded", yet without a model
C6_Witness ==
  /\ call.op = "get_finetuned_model"
  /\ Fetched # {}
  /\ TheJob(Fetched).fine_tuned_model = NoModel
  /\ TheJob(Fetched).status = "succeeded"
  /\ result.outcome = "raised"

\* C7: when the snapshot get_finetuned_model() fetched has a fine_tuned_model
\* and a status other than "succeeded", the call ends raising the
\* job-not-succeeded error that cites that job and that status, and makes no
\* further call (no handle is built).
C7_StatusNotSucceeded ==
  (/\ call.op = "get_finetuned_model"
   /\ Fetched # {}
   /\ TheJob(Fetched).fine_tuned_model # NoModel
   /\ TheJob(Fetched).status # "succeeded") =>
    /\ result = Raised([type |-> "ValueError", template |-> "has_status",
                        job_id |-> TheJob(Fetched).id,
                        status |-> TheJob(Fetched).status])
    /\ Len(trace) = 1

\* the fetched snapshot is "cancelled" and has a model
C7_Witness ==
  /\ call.op = "get_finetuned_model"
  /\ Fetched # {}
  /\ TheJob(Fetched).fine_tuned_model = FtModel
  /\ TheJob(Fetched).status = "cancelled"
  /\ result.outcome = "raised"

FetchedSucceeded ==
  /\ call.op = "get_finetuned_model"
  /\ Fetched # {}
  /\ TheJob(Fetched).fine_tuned_model # NoModel
  /\ TheJob(Fetched).status = "succeeded"

\* the handle is bound to the fetched model and was built by one factory
\* call that was given that model and the caller's keyword arguments as is
HandleFromFetched ==
  /\ result = Returned({}, {OpenAI(TheJob(Fetched).fine_tuned_model,
                                   call.model_kwargs)})
  /\ Len(trace) = 2
  /\ trace[2] = [call |-> "OpenAI", model |-> TheJob(Fetched).fine_tuned_model,
                 kwargs |-> call.model_kwargs]

\* C8 as stated: when the snapshot get_finetuned_model() fetched is
\* "succeeded" with a fine_tuned_model m, the call returns a handle bound to
\* m, with every keyword argument of the caller forwarded unchanged.
C8_HandleForAnyKwargs == FetchedSucceeded => HandleFromFetched

\* C8 as amended: the same for keyword arguments that do not name "model";
\* with a "model" keyword argument the call ends raising TypeError, having
\* built no handle.
C8_HandleUnlessModelKwarg ==
  FetchedSucceeded =>
    IF \E kv \in call.model_kwargs : kv[1] = "model"
      THEN /\ result = Raised(Error("TypeError", "multiple values for 'model'"))
           /\ Len(trace) = 1
      ELSE HandleFromFetched

\* a handle was returned for a caller who passed a keyword argument
C8_Witness ==
  /\ FetchedSucceeded
  /\ call.model_kwargs = {<<"temperature", "0.3">>}
  /\ result.outcome = "returned"
  /\ base_model # TheJob(Fetched).fine_tuned_model

\* a step in which the caller's operation op ran to its end
Ran(op) ==
  /\ pc = "idle"
  /\ call'.op = op
  /\ <<call, trace, result>>' # <<call, trace, result>>

\* what the service holds, at the time of the step, for the job the engine
\* has stored
Current == Snapshot(TheJob(start_job).id, jobs[TheJob(start_job).id])

\* C9: a get_current_job() that returns has issued one retrieve, for the id of
\* the stored _start_job, and returns the job as the service holds it at that
\* time; a get_finetuned_model() that returns has fetched the same way, the
\* service holds the job as "succeeded", and the handle is bound to the model
\* id the service holds.
C9_FreshSnapshot ==
  [][ /\ (Ran("get_current_job") /\ result'.outcome = "returned") =>
           /\ trace' = <<RetrieveCall(TheJob(start_job).id, {Current})>>
           /\ result'.job = {Current}
      /\ (Ran("get_finetuned_model") /\ result'.outcome = "returned") =>
           /\ trace'[1] = RetrieveCall(TheJob(start_job).id, {Current})
           /\ Current.status = "succeeded"
           /\ TheJob(result'.llm).model = Current.fine_tuned_model ]_vars

\* after a finetune(), get_current_job() returned a job that has succeeded and
\* has its model, while the stored snapshot is the one create returned
C9_Witness ==
  /\ call.op = "get_current_job"
  /\ result.outcome = "returned"
  /\ start_job_id = {}
  /\ TheJob(start_job).status = "running"
  /\ TheJob(start_job).fine_tuned_model = NoModel
  /\ TheJob(result.job).id = TheJob(start_job).id
  /\ TheJob(result.job).status = "succeeded"
  /\ TheJob(result.job).fine_tuned_model = FtModel

\* C10: a construction given start_job_id makes exactly one external call, the
\* retrieve of that id, and stores the job it returned as _start_job; a
\* construction without it makes no external call and leaves _start_job
\* absent; neither changes the service.  On an engine so resumed the two
\* observers never end with the "must finetune first" error and always issue
\* their retrieve.
C10_ResumeAtConstruction ==
  [][ /\ (pc = "new" /\ pc' = "idle") =>
           /\ UNCHANGED remote
           /\ IF start_job_id' # {}
                THEN LET id == TheJob(start_job_id')
                     IN /\ start_job' = {Snapshot(id, jobs[id])}
                        /\ trace' = <<RetrieveCall(id, start_job')>>
                ELSE /\ start_job' = {}
                     /\ trace' = <<>>
      /\ (call'.op \in Observers /\ start_job_id' # {}) =>
           /\ result' # MustFinetuneFirst
           /\ trace' # <<>>
           /\ trace'[1].call = "FineTuningJob.retrieve" ]_vars

\* get_finetuned_model() returned a handle on a resumed engine, no job having
\* been created since
C10_Witness ==
  /\ call.op = "get_finetuned_model"
  /\ result.outcome = "returned"
  /\ start_job_id # {}
  /\ DOMAIN jobs = InitialJobs
  /\ files = <<>>

\* the file the running finetune() uploaded
UploadedFile == TheJob(output).id

\* a step of the launch loop in which the service answered the create request
CreateAnswered ==
  /\ pc = "create"
  /\ trace' # trace
  /\ trace'[Len(trace')].cause # "transport"

NewJob == Cardinality(DOMAIN jobs') - 1

\* C14: the step in which finetune() returns is the step in which the service
\* creates the job: the engine stores the snapshot that create returned, the
\* job being in the status the service created it in, and finetune() has made
\* no retrieve call.
C14_ReturnsAtCreate ==
  [][ (call'.op = "finetune" /\ result'.outcome = "returned" /\ result' # result) =>
        /\ pc = "create"
        /\ pc' = "idle"
        /\ DOMAIN jobs' = DOMAIN jobs \cup {NewJob}
        /\ NewJob \notin DOMAIN jobs
        /\ start_job' = {Snapshot(NewJob, jobs'[NewJob])}
        /\ trace'[Len(trace')].call = "FineTuningJob.create"
        /\ trace'[Len(trace')].ret = start_job'
        /\ \A i \in DOMAIN trace' : trace'[i].call # "FineTuningJob.retrieve"
    ]_vars

\* finetune() has returned and the job it launched has not finished
C14_Witness ==
  /\ FinetuneReturned
  /\ jobs[TheJob(start_job).id].status \notin TerminalStatuses
  /\ jobs[TheJob(start_job).id].fine_tuned_model = NoModel

\* C15: the external calls of a finetune() are, in this order, the validator
\* call, at most one upload (purpose "fine-tune", named by the last component
\* of data_path) and then create calls and waits only; every create call
\* names the id that upload returned and the engine's base model; a
\* finetune() past the upload has made exactly one upload, and one that
\* returned has made at least one create call.
C15_CallOrder ==
  call.op = "finetune" =>
    /\ trace # <<>>
    /\ trace[1] = [call |-> "validate_json", path |-> data_path]
    /\ \A i \in DOMAIN trace :
         /\ trace[i].call = "validate_json" => i = 1
         /\ trace[i].call = "File.create" =>
              /\ i = 2
              /\ trace[i].purpose = "fine-tune"
              /\ trace[i].user_provided_filename = data_path[Len(data_path)]
         /\ trace[i].call = "FineTuningJob.create" =>
              /\ i > 2
              /\ trace[2].call = "File.create"
              /\ trace[2].ret # {}
              /\ trace[i].training_file = TheJob(trace[2].ret).id
              /\ trace[i].model = base_model
         /\ i > 2 => trace[i].call \in {"FineTuningJob.create", "time.sleep"}
    /\ pc \in {"create", "sleep"} =>
         /\ Len(trace) >= 2
         /\ trace[2].call = "File.create"
         /\ trace[2].ret = output
         /\ files[UploadedFile].purpose = "fine-tune"
         /\ files[UploadedFile].filename = data_path[Len(data_path)]
    /\ FinetuneReturned => Creates(trace) # {}

\* the second finetune() of an engine is retrying with the second file
C15_Witness ==
  /\ call.op = "finetune"
  /\ pc = "create"
  /\ NumSleeps(trace) >= 1
  /\ Len(files) = 2
  /\ trace[Len(trace) - 1].training_file = 2

\* C16: a step of get_current_job() or get_finetuned_model(), however it
\* ends, changes neither _start_job nor base_model, data_path, verbose, nor
\* anything on the service.
C16_ObserversChangeNothing ==
  [][ (call'.op \in Observers /\ pc = "idle" /\ UNCHANGED remote) =>
        UNCHANGED <<start_job, start_job_id, base_model, data_path, verbose,
                    pc, output>> ]_vars

\* a poll returned a handle, the job having succeeded, while the stored
\* snapshot still says "running"
C16_Witness ==
  /\ call.op = "get_finetuned_model"
  /\ result.outcome = "returned"
  /\ TheJob(start_job).status = "running"
  /\ TheJob(start_job).fine_tuned_model = NoModel

\* the jobs the service created after the engine was constructed
CreatedJobs == DOMAIN jobs \ InitialJobs
LatestJob == CHOOSE j \in CreatedJobs : \A k \in CreatedJobs : k <= j

\* C17: _start_job is absent or one whole snapshot: while the service has
\* created no job, the one of the job named at construction; afterwards the
\* one the latest create call returned.  The observers retrieve by the id of
\* that snapshot.
C17_WholeLatestSnapshot ==
  /\ (start_job = {}) <=> (start_job_id = {} /\ CreatedJobs = {})
  /\ Cardinality(start_job) <= 1
  /\ start_job # {} =>
       /\ TheJob(start_job) \in
            [id : DOMAIN jobs, status : Statuses, fine_tuned_model : ModelIds]
       /\ IF CreatedJobs = {}
            THEN TheJob(start_job).id = TheJob(start_job_id)
            ELSE TheJob(start_job) =
                   [id |-> LatestJob, status |-> "running",
                    fine_tuned_model |-> NoModel]
  /\ (call.op \in Observers /\ trace # <<>>) =>
       /\ trace[1].call = "FineTuningJob.retrieve"
       /\ trace[1].id = TheJob(start_job).id

\* on a resumed engine get_current_job() returned the job a later finetune()
\* launched
C17_Witness ==
  /\ call.op = "get_current_job"
  /\ result.outcome = "returned"
  /\ start_job_id # {}
  /\ TheJob(result.job).id \in CreatedJobs
  /\ TheJob(result.job).id # TheJob(start_job_id)

FileUploaded == [text |-> "File uploaded...", id |-> -1]

\* C18: a finetune() of an engine with verbose = FALSE prints nothing; one of
\* an engine with verbose = TRUE prints, by the time it returns, exactly the
\* line after the upload and the line after the submission.
C18_VerboseGovernsEcho ==
  call.op = "finetune" =>
    IF verbose
      THEN /\ Len(stdout) <= 2
           /\ FinetuneReturned =>
                /\ Len(stdout) = 2
                /\ stdout[1] = FileUploaded
                /\ stdout[2].text = "Training job launched"
      ELSE stdout = <<>>

\* the settings of cfg that are missing or wrong for Azure, by the name of
\* the environment variable that sets each
InvalidSettings(cfg) ==
  {n \in {"OPENAI_API_BASE", "OPENAI_API_TYPE", "OPENAI_API_VERSION",
          "OPENAI_API_KEY"} :
     \/ n = "OPENAI_API_BASE" /\ cfg.api_base = DefaultApiBase
     \/ n = "OPENAI_API_TYPE" /\ cfg.api_type \notin AzureApiTypes
     \/ n = "OPENAI_API_VERSION" /\ cfg.api_version = {}
     \/ n = "OPENAI_API_KEY" /\ cfg.api_key = {}}

\* C11: a construction of AzureOpenAI that was given an engine, with any of
\* the four settings (API base, API type, API version, API key) missing or
\* wrong, has failed with a ValueError that names such a setting.
C11_MisconfigurationRejected ==
  (/\ az_pc # "new"
   /\ az_args.engine # {}
   /\ openai_cfg.importable
   /\ InvalidSettings(openai_cfg) # {}) =>
    /\ az_pc = "failed"
    /\ az_result.outcome = "raised"
    /\ az_result.error.type = "ValueError"
    /\ az_result.error.template \in InvalidSettings(openai_cfg)

\* C12: a construction of AzureOpenAI that was given no engine has failed
\* with the error about the engine, without validate_env() or
\* OpenAI.__init__ having been entered and without an object, whatever the
\* configuration of the openai package.
C12_EngineRequiredFirst ==
  (az_pc # "new" /\ az_args.engine = {}) =>
    /\ az_pc = "failed"
    /\ az_result = AzRaised(Error("ValueError", "engine"))
    /\ az_trace = <<>>
    /\ azure = NoAzure

\* no engine was given and the configuration is wrong as well
C12_Witness ==
  /\ az_pc = "failed"
  /\ az_args # NoArgs
  /\ az_args.engine = {}
  /\ openai_cfg.api_base = DefaultApiBase
  /\ ~openai_cfg.importable

\* C19: every read of _model_kwargs on a constructed AzureOpenAI returns a
\* dict without the key "model", with "engine" bound to the engine given at
\* construction and to nothing else, and otherwise with exactly the entries of
\* the base client's dict; the object is as construction left it.
C19_EngineReplacesModel ==
  (az_pc = "constructed" /\ az_reads >= 1) =>
    LET kw == az_result.kwargs
        inherited == OpenAIModelKwargs(azure)
    IN /\ az_result.outcome = "returned"
       /\ "model" \notin Keys(kw)
       /\ {kv \in kw : kv[1] = "engine"} = {<<"engine", TheJob(az_args.engine)>>}
       /\ {kv \in kw : kv[1] # "engine"} =
            {kv \in inherited : kv[1] \notin {"model", "engine"}}
       /\ "model" \in Keys(inherited)
       /\ azure = OpenAIInit(az_args)

\* _model_kwargs was read MaxReads times on an object whose additional_kwargs
\* name another engine
C19_Witness ==
  /\ az_pc = "constructed"
  /\ az_reads = MaxReads
  /\ az_reads >= 2
  /\ <<"engine", "other">> \in azure.additional_kwargs
  /\ az_result.outcome = "returned"

====
